---- MODULE Spec2Model ----
(***************************************************************************)
(* Model of src/src/api/openai.ts: the OpenAI-compatible gateway handlers  *)
(* (chat completions, list models, retrieve model, embeddings).            *)
(*                                                                         *)
(* One request is handled at a time; every suspension point (await) of a   *)
(* handler ends an action.  Strings are sequences of one-character         *)
(* strings so that endsWith / replace / the model-id pattern are computed  *)
(* character by character, as the code computes them.                      *)
(***************************************************************************)
EXTENDS Naturals, Sequences, FiniteSets, TLC

VARIABLES pc, endpoint, req, fwd, call, nCalls, tried, upstream, events, resp, raised

vars == <<pc, endpoint, req, fwd, call, nCalls, tried, upstream, events, resp, raised>>

(***************************************************************************)
(* Bounds of the model.                                                    *)
(***************************************************************************)
MaxTools == 2      \* longest caller-supplied tools array
MaxChunks == 2     \* longest upstream completion stream
MaxModels == 2     \* longest upstream model list
NumKeys == 2       \* credentials in the pool of the retry executor

(***************************************************************************)
(* Strings.                                                                *)
(***************************************************************************)
Empty == <<>>
SearchSuffix == <<"-", "s", "e", "a", "r", "c", "h">>
GeminiPrefix == <<"g", "e", "m", "i", "n", "i", "-">>
Digits == {"0", "1", "2", "3", "4", "5", "6", "7", "8", "9"}
MajorDigits == Digits \ {"0", "1"}

\* String.prototype.endsWith
EndsWith(s, suffix) ==
  /\ Len(s) >= Len(suffix)
  /\ SubSeq(s, Len(s) - Len(suffix) + 1, Len(s)) = suffix

\* String.prototype.startsWith (the ^ anchor of the pattern)
StartsWith(s, prefix) ==
  /\ Len(s) >= Len(prefix)
  /\ SubSeq(s, 1, Len(prefix)) = prefix

\* String.prototype.indexOf, 1-based; 0 when the pattern does not occur
IndexOf(s, pat) ==
  LET hits == {i \in 1..(Len(s) + 1) : i + Len(pat) - 1 <= Len(s)
                                       /\ SubSeq(s, i, i + Len(pat) - 1) = pat}
  IN IF hits = {} THEN 0 ELSE CHOOSE i \in hits : \A j \in hits : i <= j

\* String.prototype.replace with a string pattern: the FIRST occurrence only
ReplaceFirst(s, pat, by) ==
  LET i == IndexOf(s, pat)
  IN IF i = 0 THEN s
     ELSE SubSeq(s, 1, i - 1) \o by \o SubSeq(s, i + Len(pat), Len(s))

\* /^gemini-[2-9]\.\d/.test(id)
MatchesGemini2Plus(id) ==
  /\ StartsWith(id, GeminiPrefix)
  /\ Len(id) >= Len(GeminiPrefix) + 3
  /\ id[Len(GeminiPrefix) + 1] \in MajorDigits
  /\ id[Len(GeminiPrefix) + 2] = "."
  /\ id[Len(GeminiPrefix) + 3] \in Digits

(***************************************************************************)
(* Inputs: model identifiers.                                              *)
(***************************************************************************)
Gemini25 == GeminiPrefix \o <<"2", ".", "5">>
Gemini15 == GeminiPrefix \o <<"1", ".", "5">>
Gemini30 == GeminiPrefix \o <<"3", ".", "0">>
DashX == <<"-", "x">>
Heads == {Empty, Gemini25}
Mids == {Empty, SearchSuffix, SearchSuffix \o DashX, DashX}
Tails == {Empty, SearchSuffix, DashX}
ModelNames == {h \o m \o t : h \in Heads, m \in Mids, t \in Tails}

\* a field of the JSON body that may be missing: def = FALSE is undefined
Undefined == [def |-> FALSE, str |-> Empty]
Str(s) == [def |-> TRUE, str |-> s]
ModelValues == {Undefined} \cup {Str(s) : s \in ModelNames}

(***************************************************************************)
(* Inputs: tool descriptors.  hasFunction = FALSE is a descriptor without  *)
(* a `function` member; name is function.name.                             *)
(***************************************************************************)
GoogleSearchName == "googleSearch"
googleSearchTool ==
  [type |-> "function", hasFunction |-> TRUE, name |-> GoogleSearchName,
   description |-> "Google Search"]
WeatherTool ==
  [type |-> "function", hasFunction |-> TRUE, name |-> "get_weather",
   description |-> "Weather"]
CustomSearchTool ==
  [type |-> "custom", hasFunction |-> TRUE, name |-> GoogleSearchName,
   description |-> "Search"]
MalformedTool ==
  [type |-> "function", hasFunction |-> FALSE, name |-> "",
   description |-> ""]
ToolPool == {googleSearchTool, WeatherTool, CustomSearchTool, MalformedTool}

SeqsUpTo(S, n) == UNION {[1..k -> S] : k \in 0..n}

\* kind: "absent" (undefined / null), "array", "other" (a non-array value)
NoTools == [kind |-> "absent", items |-> <<>>]
NonArrayTools == [kind |-> "other", items |-> <<>>]
ToolArray(items) == [kind |-> "array", items |-> items]
ToolsValues ==
  {NoTools, NonArrayTools} \cup {ToolArray(t) : t \in SeqsUpTo(ToolPool, MaxTools)}

\* the body's `stream` member: missing, false or true
StreamValues == {"absent", "false", "true"}
\* `stream = false` in the destructuring, then `if (stream)`
Streaming(stream) == stream = "true"

Passthrough ==
  {[messages |-> <<"hi">>, tool_choice |-> "absent"],
   [messages |-> <<"hi", "there">>, tool_choice |-> "auto"]}

(***************************************************************************)
(* Tool injection and model-id normalisation (lines 24-42).                *)
(***************************************************************************)
\* tool => tool.type === 'function' && tool.function.name === 'googleSearch'
\* "throws": tool.function is undefined and .name is read from it
IsGoogleSearch(tool) ==
  IF tool.type # "function" THEN "false"
  ELSE IF ~tool.hasFunction THEN "throws"
  ELSE IF tool.name = GoogleSearchName THEN "true" ELSE "false"

\* Array.prototype.some with that predicate: stops at the first true
RECURSIVE SomeGoogleSearch(_)
SomeGoogleSearch(items) ==
  IF items = <<>> THEN "false"
  ELSE LET r == IsGoogleSearch(Head(items))
       IN IF r = "false" THEN SomeGoogleSearch(Tail(items)) ELSE r

isSearchModel(originalModel) == EndsWith(originalModel, SearchSuffix)

\* mutant: the suffix is replaced without the endsWith test
actualModelId_AlwaysReplace(originalModel) ==
  ReplaceFirst(originalModel, SearchSuffix, Empty)

actualModelId(originalModel) ==
  IF isSearchModel(originalModel)
  THEN ReplaceFirst(originalModel, SearchSuffix, Empty)
  ELSE originalModel

\* mutant: the search tool is appended without the duplicate check
finalTools_AlwaysAppend(originalModel, originalTools) ==
  IF ~isSearchModel(originalModel) THEN originalTools
  ELSE IF originalTools.kind = "array"
       THEN ToolArray(Append(originalTools.items, googleSearchTool))
       ELSE ToolArray(<<googleSearchTool>>)

\* finalTools; only evaluated when SomeGoogleSearch does not throw
finalTools(originalModel, originalTools) ==
  IF ~isSearchModel(originalModel) THEN originalTools
  ELSE IF originalTools.kind = "array"
       THEN IF SomeGoogleSearch(originalTools.items) = "false"
            THEN ToolArray(Append(originalTools.items, googleSearchTool))
            ELSE originalTools
       ELSE ToolArray(<<googleSearchTool>>)

\* the injection block raises inside the try: originalModel is undefined
\* (.endsWith of undefined), or the duplicate check reads .name of undefined
InjectionThrows(model, tools) ==
  \/ ~model.def
  \/ /\ isSearchModel(model.str)
     /\ tools.kind = "array"
     /\ SomeGoogleSearch(tools.items) = "throws"

(***************************************************************************)
(* Inputs of the other endpoints.                                          *)
(***************************************************************************)
EmbedModel == <<"e", "m", "b">>
Hello == <<"h", "i">>
Float == <<"f", "l", "o", "a", "t">>
EmbedModelValues == {Undefined, Str(Empty), Str(EmbedModel)}
EmbedInputValues == {Undefined, Str(Empty), Str(Hello)}
EncodingValues == {Undefined, Str(Float)}
DimensionValues ==
  {[def |-> FALSE, num |-> 0], [def |-> TRUE, num |-> 0], [def |-> TRUE, num |-> 256]}

\* JavaScript truthiness of an optional string / optional number
Truthy(v) == v.def /\ v.str # Empty
TruthyNum(v) == v.def /\ v.num # 0

\* upstream model descriptors; created = 0 and owned_by = "" stand for a
\* missing (falsy) member
ListIds ==
  {Gemini25, Gemini30, Gemini15, Gemini25 \o SearchSuffix,
   GeminiPrefix \o <<"2", "5">>, <<"x">> \o Gemini25}
ModelPool ==
  {[id |-> i, created |-> c, owned_by |-> o] :
     i \in ListIds, c \in {0, 1700}, o \in {"", "google"}}
UpstreamLists == SeqsUpTo(ModelPool, MaxModels)
NowValues == {1800, 1900}

(***************************************************************************)
(* Model augmentation (lines 111-130).                                     *)
(***************************************************************************)
\* mutant: the filter without the endsWith('-search') test
Eligible_NoSuffixCheck(model) == MatchesGemini2Plus(model.id)

\* the filter predicate of searchModelsData
Eligible(model) ==
  /\ MatchesGemini2Plus(model.id)
  /\ ~EndsWith(model.id, SearchSuffix)

\* the map callback of searchModelsData; `now` is read only when created is
\* falsy
SearchVariant(model, now) ==
  [id |-> model.id \o SearchSuffix,
   created |-> IF model.created # 0 THEN model.created ELSE now,
   owned_by |-> IF model.owned_by # "" THEN model.owned_by ELSE "google"]

\* the readings Date.now() may give while a list is mapped: one per model,
\* used in the order the map callback reads the clock
Clocks(list) == [1..Len(list) -> NowValues]

\* filter, then map; the callback reads the clock (Head(clock)) once for each
\* eligible model whose created is falsy
RECURSIVE searchModelsData(_, _)
searchModelsData(originalModelsData, clock) ==
  IF originalModelsData = <<>> THEN <<>>
  ELSE LET m == Head(originalModelsData)
           left == IF Eligible(m) /\ m.created = 0 THEN Tail(clock) ELSE clock
           rest == searchModelsData(Tail(originalModelsData), left)
       IN IF Eligible(m) THEN <<SearchVariant(m, Head(clock))>> \o rest ELSE rest

\* mutant: the derived entries are appended in reverse order
combinedModelsData_DerivedReversed(originalModelsData, clock) ==
  LET derived == searchModelsData(originalModelsData, clock)
  IN originalModelsData \o
       [i \in 1..Len(derived) |-> derived[Len(derived) + 1 - i]]

combinedModelsData(originalModelsData, clock) ==
  originalModelsData \o searchModelsData(originalModelsData, clock)

(***************************************************************************)
(* Server-sent events (lines 64-75).                                       *)
(***************************************************************************)
\* the i-th chunk object the upstream stream yields
Chunk(i) == [object |-> "chat.completion.chunk", id |-> i]
\* JSON.stringify(value): the event data is the encoding, not the value
JsonStringify(value) == [json |-> TRUE, value |-> value]
\* the literal string '[DONE]', not JSON-encoded
DoneData == [json |-> FALSE, value |-> [object |-> "[DONE]", id |-> 0]]
\* createErrorResponse(error).body
ErrorBody(error) == [object |-> "error", id |-> error.status]
ChunkEvent(chunk) == [data |-> JsonStringify(chunk)]
DoneEvent == [data |-> DoneData]
ErrorEvent(error) == [data |-> JsonStringify(ErrorBody(error))]

(***************************************************************************)
(* Errors and responses.                                                   *)
(***************************************************************************)
NoError == [type |-> "none", status |-> 0]
SyntaxError == [type |-> "SyntaxError", status |-> 0]
TypeError == [type |-> "TypeError", status |-> 0]
ValidationError == [type |-> "invalid_request_error", status |-> 400]
RetryableError == [type |-> "rate_limit", status |-> 429]
PermanentError == [type |-> "upstream_invalid", status |-> 404]
StreamError == [type |-> "stream_interrupted", status |-> 500]

NoResponse == [via |-> "none", error |-> NoError, data |-> <<>>]
\* c.json(value)
Json(data) == [via |-> "c.json", error |-> NoError, data |-> data]
\* createHonoErrorResponse(c, error)
Translated(error) == [via |-> "createHonoErrorResponse", error |-> error, data |-> <<>>]
\* streamSSE(c, callback): the SSE response is returned at once
SseResponse == [via |-> "streamSSE", error |-> NoError, data |-> <<>>]
\* a rejection that leaves the handler: the framework's default handler answers
Unhandled(error) == [via |-> "unhandled", error |-> error, data |-> <<>>]

(***************************************************************************)
(* State.                                                                  *)
(***************************************************************************)
Keys == 1..NumKeys
\* the one credential withoutBalancing uses
FixedCredential == 1
NoReq == [kind |-> "none"]
NoFwd == [api |-> "none"]
NoCall == [api |-> "none"]

Init ==
  /\ pc = "idle"
  /\ endpoint = "none"
  /\ req = NoReq
  /\ fwd = NoFwd
  /\ call = NoCall
  /\ nCalls = 0
  /\ tried = {}
  /\ upstream = <<>>
  /\ events = <<>>
  /\ resp = NoResponse
  /\ raised = NoError

\* Requests share no state in this file (the credential pool lives in the
\* retry executor), so a behaviour follows one request from its arrival.
Accepting == pc = "idle"

\* request-scoped state no upstream call has touched yet
Fresh == UNCHANGED <<call, nCalls, tried, upstream, events>>

(***************************************************************************)
(* POST /chat/completions, up to the first await of an upstream call       *)
(* (lines 17-50 and 81).                                                   *)
(***************************************************************************)
\* the parameters of openai.chat.completions.create: `stream: true` on the
\* streaming path (line 60), no `stream` member on the other (lines 86-91),
\* which the upstream reads as false
ChatParams(model, tools, messages, tool_choice, stream) ==
  [model |-> actualModelId(model), tools |-> finalTools(model, tools),
   messages |-> messages, tool_choice |-> tool_choice,
   stream |-> IF Streaming(stream) THEN "true" ELSE "absent"]

ChatCompletions ==
  /\ Accepting
  /\ Fresh
  /\ endpoint' = "chat"
  /\ \E bodyOk \in BOOLEAN, model \in ModelValues, tools \in ToolsValues,
        rest \in Passthrough, stream \in StreamValues :
       IF ~bodyOk
       THEN \* await c.req.json() rejects, outside the try
            /\ req' = NoReq
            /\ fwd' = NoFwd
            /\ resp' = Unhandled(SyntaxError)
            /\ raised' = SyntaxError
            /\ pc' = "done"
       ELSE /\ req' = [model |-> model, tools |-> tools, messages |-> rest.messages,
                       tool_choice |-> rest.tool_choice, stream |-> stream]
            /\ IF InjectionThrows(model, tools)
               THEN /\ fwd' = NoFwd
                    /\ resp' = Translated(TypeError)
                    /\ raised' = TypeError
                    /\ pc' = "done"
               ELSE /\ fwd' = [api |-> "chat.completions.create",
                               retryModel |-> actualModelId(model.str),
                               params |-> ChatParams(model.str, tools, rest.messages,
                                                     rest.tool_choice, stream)]
                    /\ resp' = IF Streaming(stream) THEN SseResponse ELSE NoResponse
                    /\ raised' = NoError
                    /\ pc' = "withRetry"

(***************************************************************************)
(* POST /embeddings, up to the await of withRetry (lines 163-173).         *)
(***************************************************************************)
\* mutant: && in place of ||
MissingRequired_Both(model, input) == ~Truthy(model) /\ ~Truthy(input)

\* !model || !input (line 166)
MissingRequired(model, input) == ~Truthy(model) \/ ~Truthy(input)

EmbeddingParams(model, input, encoding_format, dimensions) ==
  [model |-> model, input |-> input,
   encoding_format |-> IF Truthy(encoding_format) THEN encoding_format ELSE Undefined,
   dimensions |-> IF TruthyNum(dimensions) THEN dimensions
                  ELSE [def |-> FALSE, num |-> 0]]

Embeddings ==
  /\ Accepting
  /\ Fresh
  /\ endpoint' = "embeddings"
  /\ \E bodyOk \in BOOLEAN, model \in EmbedModelValues, input \in EmbedInputValues,
        encoding_format \in EncodingValues, dimensions \in DimensionValues :
       IF ~bodyOk
       THEN /\ req' = NoReq
            /\ fwd' = NoFwd
            /\ resp' = Unhandled(SyntaxError)
            /\ raised' = SyntaxError
            /\ pc' = "done"
       ELSE /\ req' = [model |-> model, input |-> input,
                       encoding_format |-> encoding_format, dimensions |-> dimensions]
            /\ IF MissingRequired(model, input)
               THEN /\ fwd' = NoFwd
                    /\ resp' = Translated(ValidationError)
                    /\ raised' = ValidationError
                    /\ pc' = "done"
               ELSE /\ fwd' = [api |-> "embeddings.create",
                               retryModel |-> model.str,
                               params |-> EmbeddingParams(model, input,
                                                          encoding_format, dimensions)]
                    /\ resp' = NoResponse
                    /\ raised' = NoError
                    /\ pc' = "withRetry"

(***************************************************************************)
(* withRetry(modelId, op): op is invoked with a credential not yet tried   *)
(* in this call, and again with another one after a retryable failure.    *)
(***************************************************************************)
\* the handler's continuation when withRetry rejects with `error`
RetryFailed(error) ==
  /\ pc' = "done"
  /\ raised' = error
  /\ upstream' = upstream
  /\ IF endpoint = "chat" /\ Streaming(req.stream)
     THEN \* the catch inside the streamSSE callback (lines 70-75)
          /\ events' = Append(events, ErrorEvent(error))
          /\ resp' = resp
     ELSE \* the handler's catch (lines 95-97, 187-189)
          /\ events' = events
          /\ resp' = Translated(error)

\* the handler's continuation when withRetry resolves
RetrySucceeded ==
  /\ raised' = raised
  /\ upstream' = upstream
  /\ events' = events
  /\ IF endpoint = "chat" /\ Streaming(req.stream)
     THEN /\ pc' = "streaming"
          /\ resp' = resp
     ELSE /\ pc' = "done"
          /\ resp' = Json(<<>>)

\* withRetry invokes op with a credential not yet tried: the callback issues
\* the upstream call and suspends on it (lines 50-62, 81-92, 173-184)
WithRetryCall ==
  /\ pc = "withRetry"
  /\ \E key \in Keys \ tried :
       /\ call' = [api |-> fwd.api, key |-> key, params |-> fwd.params]
       /\ tried' = tried \cup {key}
  /\ nCalls' = nCalls + 1
  /\ pc' = "awaitRetry"
  /\ UNCHANGED <<endpoint, req, fwd, upstream, events, resp, raised>>

\* the upstream call settles: withRetry resolves, rejects, or goes on to
\* another credential
WithRetryAnswer ==
  /\ pc = "awaitRetry"
  /\ \E outcome \in {"ok", "retryable", "permanent"} :
       CASE outcome = "ok" -> RetrySucceeded
         [] outcome = "permanent" -> RetryFailed(PermanentError)
         [] outcome = "retryable" ->
              IF tried = Keys
              THEN RetryFailed(RetryableError)
              ELSE /\ pc' = "withRetry"
                   /\ UNCHANGED <<upstream, events, resp, raised>>
  /\ UNCHANGED <<endpoint, req, fwd, call, nCalls, tried>>

(***************************************************************************)
(* The streamSSE callback after withRetry resolved (lines 64-75).          *)
(***************************************************************************)
\* one iteration of the for-await loop: the next chunk is written as an event
StreamChunk ==
  /\ pc = "streaming"
  /\ Len(upstream) < MaxChunks
  /\ LET chunk == Chunk(Len(upstream) + 1)
     IN /\ upstream' = Append(upstream, chunk)
        /\ events' = Append(events, ChunkEvent(chunk))
  /\ UNCHANGED <<pc, endpoint, req, fwd, call, nCalls, tried, resp, raised>>

\* the upstream stream ends: the terminal event is written
StreamEnd ==
  /\ pc = "streaming"
  /\ events' = Append(events, DoneEvent)
  /\ pc' = "done"
  /\ UNCHANGED <<endpoint, req, fwd, call, nCalls, tried, upstream, resp, raised>>

\* mutant: the terminal '[DONE]' is also written after the error event
StreamFail_ThenDone ==
  /\ pc = "streaming"
  /\ events' = Append(Append(events, ErrorEvent(StreamError)), DoneEvent)
  /\ raised' = StreamError
  /\ pc' = "done"
  /\ UNCHANGED <<endpoint, req, fwd, call, nCalls, tried, upstream, resp>>

\* mutant: a failure while reading the stream re-enters the retry executor
StreamFail_Retry ==
  /\ pc = "streaming"
  /\ pc' = IF tried = Keys THEN "done" ELSE "withRetry"
  /\ events' = IF tried = Keys THEN Append(events, ErrorEvent(StreamError)) ELSE events
  /\ raised' = StreamError
  /\ UNCHANGED <<endpoint, req, fwd, call, nCalls, tried, upstream, resp>>

\* the upstream stream fails while being read: the inner catch
StreamFail ==
  /\ pc = "streaming"
  /\ events' = Append(events, ErrorEvent(StreamError))
  /\ raised' = StreamError
  /\ pc' = "done"
  /\ UNCHANGED <<endpoint, req, fwd, call, nCalls, tried, upstream, resp>>

(***************************************************************************)
(* GET /models and GET /models/:model (lines 101-160): withoutBalancing    *)
(* invokes the operation once, with one fixed credential.                  *)
(***************************************************************************)
ListModels ==
  /\ Accepting
  /\ Fresh
  /\ endpoint' = "models"
  /\ req' = NoReq
  /\ fwd' = [api |-> "models.list"]
  /\ resp' = NoResponse
  /\ raised' = NoError
  /\ pc' = "withoutBalancing"

RetrieveModel ==
  /\ Accepting
  /\ Fresh
  /\ endpoint' = "model"
  /\ \E modelId \in ModelNames :
       /\ req' = [model |-> modelId]
       /\ fwd' = [api |-> "models.retrieve", params |-> [model |-> modelId]]
  /\ resp' = NoResponse
  /\ raised' = NoError
  /\ pc' = "withoutBalancing"

\* the callback issues the one upstream call and suspends on it
\* (lines 104-109, 148-153)
WithoutBalancingCall ==
  /\ pc = "withoutBalancing"
  /\ call' = fwd @@ [key |-> FixedCredential]
  /\ nCalls' = nCalls + 1
  /\ tried' = {FixedCredential}
  /\ pc' = "awaitUpstream"
  /\ UNCHANGED <<endpoint, req, fwd, upstream, events, resp, raised>>

\* any upstream failure reaches the handler's catch: there is no failover
UpstreamErrors == {RetryableError, PermanentError}

\* openai.models.list() settles (lines 111-139)
ListModelsAnswer ==
  /\ pc = "awaitUpstream"
  /\ endpoint = "models"
  /\ pc' = "done"
  /\ \/ \E error \in UpstreamErrors :
          /\ upstream' = upstream
          /\ resp' = Translated(error)
          /\ raised' = error
     \/ \E list \in UpstreamLists :
          \E clock \in Clocks(list) :
            /\ upstream' = list
            /\ resp' = Json(combinedModelsData(list, clock))
            /\ raised' = raised
  /\ UNCHANGED <<endpoint, req, fwd, call, nCalls, tried, events>>

\* openai.models.retrieve(modelId) settles (lines 155-159)
RetrieveModelAnswer ==
  /\ pc = "awaitUpstream"
  /\ endpoint = "model"
  /\ pc' = "done"
  /\ \/ \E error \in UpstreamErrors :
          /\ resp' = Translated(error)
          /\ raised' = error
     \/ /\ resp' = Json(<<>>)
        /\ raised' = raised
  /\ UNCHANGED <<endpoint, req, fwd, call, nCalls, tried, upstream, events>>

Next ==
  \/ ChatCompletions
  \/ Embeddings
  \/ WithRetryCall
  \/ WithRetryAnswer
  \/ StreamChunk
  \/ StreamEnd
  \/ StreamFail
  \/ ListModels
  \/ RetrieveModel
  \/ WithoutBalancingCall
  \/ ListModelsAnswer
  \/ RetrieveModelAnswer

Spec == Init /\ [][Next]_vars

(***************************************************************************)
(* Vocabulary of the properties.                                           *)
(***************************************************************************)
IsPrefix(a, b) == Len(a) <= Len(b) /\ SubSeq(b, 1, Len(a)) = a

\* the positions of the descriptors whose function.name is "googleSearch"
NamedGoogleSearch(items) ==
  {i \in DOMAIN items : items[i].hasFunction /\ items[i].name = GoogleSearchName}

\* the positions of the function-typed descriptors named "googleSearch"
FunctionGoogleSearch(items) ==
  {i \in NamedGoogleSearch(items) : items[i].type = "function"}

\* the caller's tools as a list (no list when absent or not an array)
CallerItems == IF req.tools.kind = "array" THEN req.tools.items ELSE <<>>

\* a chat request was normalised and handed to withRetry
ChatForwarded == endpoint = "chat" /\ fwd # NoFwd

\* every upstream call made so far carried the normalised parameters
CallCarriesParams == nCalls >= 1 => call.params = fwd.params

Contains(s, pat) == IndexOf(s, pat) # 0

\* the pattern gemini-<digit 2-9>.<digit> at the start of an identifier
IsGemini2PlusId(id) ==
  /\ Len(id) >= 10
  /\ SubSeq(id, 1, 7) = <<"g", "e", "m", "i", "n", "i", "-">>
  /\ id[8] \in {"2", "3", "4", "5", "6", "7", "8", "9"}
  /\ id[9] = "."
  /\ id[10] \in {"0", "1", "2", "3", "4", "5", "6", "7", "8", "9"}

\* a list-models request answered with a model list
ModelsListed == endpoint = "models" /\ pc = "done" /\ resp.via = "c.json"

\* the positions of the upstream models that get a derived entry
Augmentable ==
  {i \in DOMAIN upstream : /\ IsGemini2PlusId(upstream[i].id)
                           /\ ~EndsWith(upstream[i].id, SearchSuffix)}

\* the position of the k-th augmentable upstream model
KthAugmentable(k) ==
  CHOOSE i \in Augmentable : Cardinality({j \in Augmentable : j <= i}) = k

\* the upstream list is itself the output of an augmentation
IsAugmented(list) ==
  \E n \in 0..Len(list) :
    \E clock \in Clocks(SubSeq(list, 1, n)) :
      combinedModelsData(SubSeq(list, 1, n), clock) = list

\* a streaming chat request whose SSE channel is open
StreamingChat == endpoint = "chat" /\ resp.via = "streamSSE"

IsChunkEvent(e) == e.data.json /\ e.data.value.object = "chat.completion.chunk"
IsErrorEvent(e) == e.data.json /\ e.data.value.object = "error"
IsTerminalEvent(e) == e = DoneEvent \/ IsErrorEvent(e)
HasChunkEvent(evs) == \E i \in DOMAIN evs : IsChunkEvent(evs[i])

\* an embeddings request whose body was read
EmbeddingsRead == endpoint = "embeddings" /\ req # NoReq

(***************************************************************************)
(* C1: for every chat request whose model ends with "-search", the model   *)
(* id forwarded upstream and passed to withRetry is the input with that    *)
(* trailing suffix removed: input = forwarded \o "-search".                *)
(***************************************************************************)
C1_TrailingSuffixRemoved ==
  (ChatForwarded /\ EndsWith(req.model.str, SearchSuffix)) =>
     /\ fwd.params.model \o SearchSuffix = req.model.str
     /\ fwd.retryModel \o SearchSuffix = req.model.str
     /\ CallCarriesParams

(***************************************************************************)
(* C2 as stated: with a model ending in "-search", the forwarded tool list *)
(* holds exactly one descriptor named "googleSearch" whatever tools the    *)
(* caller supplied, and the caller's tools are kept in their order.        *)
(***************************************************************************)
C2_ExactlyOneGoogleSearch ==
  (ChatForwarded /\ EndsWith(req.model.str, SearchSuffix)) =>
     /\ fwd.params.tools.kind = "array"
     /\ Cardinality(NamedGoogleSearch(fwd.params.tools.items)) = 1
     /\ IsPrefix(CallerItems, fwd.params.tools.items)
     /\ CallCarriesParams

(***************************************************************************)
(* C2 amended: with a model ending in "-search", the forwarded tool list   *)
(* is the caller's list, in order, followed by the googleSearch function   *)
(* tool unless the caller's list already holds a function-typed            *)
(* descriptor of that name; so it holds exactly one descriptor named       *)
(* "googleSearch" when the caller supplied none, or supplied one and that  *)
(* one is function-typed.                                                  *)
(***************************************************************************)
C2_InjectedOnceUnlessPresent ==
  (ChatForwarded /\ EndsWith(req.model.str, SearchSuffix)) =>
     LET out == fwd.params.tools.items
         own == NamedGoogleSearch(CallerItems)
         ownFn == FunctionGoogleSearch(CallerItems)
     IN /\ fwd.params.tools.kind = "array"
        /\ IsPrefix(CallerItems, out)
        /\ out = IF ownFn = {} THEN Append(CallerItems, googleSearchTool)
                 ELSE CallerItems
        /\ FunctionGoogleSearch(out) # {}
        /\ (own = ownFn /\ Cardinality(own) <= 1) =>
              Cardinality(NamedGoogleSearch(out)) = 1
        /\ CallCarriesParams

C2_Witness ==
  /\ ChatForwarded
  /\ nCalls >= 1
  /\ EndsWith(req.model.str, SearchSuffix)
  /\ req.tools = ToolArray(<<WeatherTool, googleSearchTool>>)
  /\ call.params.tools = req.tools

(***************************************************************************)
(* C3: for every chat request whose model does not end with "-search",     *)
(* the model id and the tools forwarded upstream are the caller's, and     *)
(* messages, tool_choice and the streaming mode are passed through.        *)
(***************************************************************************)
C3_PlainModelUnmodified ==
  (ChatForwarded /\ ~EndsWith(req.model.str, SearchSuffix)) =>
     /\ fwd.params.model = req.model.str
     /\ fwd.retryModel = req.model.str
     /\ fwd.params.tools = req.tools
     /\ fwd.params.messages = req.messages
     /\ fwd.params.tool_choice = req.tool_choice
     /\ (fwd.params.stream = "true") <=> (req.stream = "true")
     /\ CallCarriesParams

C3_Witness ==
  /\ ChatForwarded
  /\ nCalls >= 1
  /\ req.model.str = Gemini25 \o SearchSuffix \o DashX
  /\ req.tools = ToolArray(<<WeatherTool>>)
  /\ call.params.model = req.model.str
  /\ call.params.tools = req.tools

(***************************************************************************)
(* C4: a chat request whose model is literally "-search", or contains      *)
(* "-search" without ending in it, has its model id and tools forwarded    *)
(* unchanged.                                                              *)
(***************************************************************************)
C4_NoTriggerOnEmptyBaseOrInfix ==
  (/\ ChatForwarded
   /\ \/ req.model.str = SearchSuffix
      \/ /\ Contains(req.model.str, SearchSuffix)
         /\ ~EndsWith(req.model.str, SearchSuffix)) =>
     /\ fwd.params.model = req.model.str
     /\ fwd.params.tools = req.tools

(***************************************************************************)
(* C5: the list-models result is the upstream list, unchanged and in       *)
(* order, followed by one derived entry id \o "-search" for each upstream  *)
(* model whose id matches gemini-<2-9>.<digit> and does not end in         *)
(* "-search", in the order of their originals; no other entry is added.    *)
(* The j-th derived entry is the copy of the j-th such original: its id    *)
(* suffixed, its created and owned_by kept, or defaulted when missing.     *)
(***************************************************************************)
C5_OriginalsThenDerived ==
  ModelsListed =>
     LET n == Len(upstream)
         k == Cardinality(Augmentable)
     IN /\ Len(resp.data) = n + k
        /\ SubSeq(resp.data, 1, n) = upstream
        /\ \A j \in 1..k :
             LET original == upstream[KthAugmentable(j)]
                 derived == resp.data[n + j]
             IN /\ derived.id = original.id \o SearchSuffix
                /\ IF original.created # 0
                   THEN derived.created = original.created
                   ELSE derived.created \in NowValues
                /\ derived.owned_by =
                     IF original.owned_by # "" THEN original.owned_by ELSE "google"

\* two different eligible models, listed against their alphabetical order
C5_Witness ==
  /\ ModelsListed
  /\ Len(upstream) = 2
  /\ upstream[1].id = Gemini30
  /\ upstream[2].id = Gemini25
  /\ Len(resp.data) = 4
  /\ resp.data[3].id = Gemini30 \o SearchSuffix
  /\ resp.data[4].id = Gemini25 \o SearchSuffix

(***************************************************************************)
(* C6: when the upstream list is already the output of an augmentation,    *)
(* augmenting it adds no entry whose id ends in "-search-search".          *)
(***************************************************************************)
C6_NoDoubleSuffix ==
  (ModelsListed /\ IsAugmented(upstream)) =>
     \A i \in (Len(upstream) + 1)..Len(resp.data) :
        ~EndsWith(resp.data[i].id, SearchSuffix \o SearchSuffix)

C6_Witness ==
  /\ ModelsListed
  /\ IsAugmented(upstream)
  /\ Len(upstream) = 2
  /\ upstream[1].id = Gemini25
  /\ upstream[2].id = Gemini25 \o SearchSuffix
  /\ Len(resp.data) = 3

(***************************************************************************)
(* C7 as stated: an embeddings request in which model or input is missing  *)
(* is answered with the status-400 invalid_request_error and no upstream   *)
(* call; a request with both present goes upstream through withRetry.      *)
(***************************************************************************)
C7_MissingRejectedPresentForwarded ==
  EmbeddingsRead =>
     IF ~req.model.def \/ ~req.input.def
     THEN /\ pc = "done"
          /\ resp = Translated(ValidationError)
          /\ nCalls = 0
          /\ tried = {}
     ELSE fwd # NoFwd /\ fwd.api = "embeddings.create"

(***************************************************************************)
(* C7 amended: an embeddings request in which model or input is missing    *)
(* or empty is answered with the status-400 invalid_request_error and no   *)
(* upstream call is made and no credential selected; a request with both   *)
(* present and non-empty goes upstream through withRetry.                  *)
(***************************************************************************)
C7_FalsyRejectedTruthyForwarded ==
  EmbeddingsRead =>
     IF \/ ~req.model.def \/ req.model.str = Empty
        \/ ~req.input.def \/ req.input.str = Empty
     THEN /\ pc = "done"
          /\ resp.via = "createHonoErrorResponse"
          /\ resp.error.status = 400
          /\ resp.error.type = "invalid_request_error"
          /\ nCalls = 0
          /\ tried = {}
          /\ call = NoCall
     ELSE /\ fwd # NoFwd
          /\ fwd.api = "embeddings.create"
          /\ fwd.retryModel = req.model.str
          /\ pc = "withRetry" \/ nCalls >= 1
          /\ nCalls >= 1 => call.api = "embeddings.create"

C7_Witness ==
  /\ EmbeddingsRead
  /\ ~req.model.def
  /\ req.input = Str(Hello)
  /\ pc = "done"
  /\ resp.error.status = 400
  /\ nCalls = 0

(***************************************************************************)
(* C8: in a streaming chat request the events written are one event per    *)
(* upstream chunk, in upstream order, then exactly one terminal event:     *)
(* "[DONE]" when the upstream stream ended normally, one JSON error event  *)
(* when the upstream call or stream failed; a terminal event is the last   *)
(* event.                                                                  *)
(***************************************************************************)
C8_ChunksThenOneTerminal ==
  StreamingChat =>
     LET n == Len(upstream)
     IN /\ Len(events) >= n
        /\ \A i \in 1..n : events[i] = ChunkEvent(upstream[i])
        /\ \A i \in 1..n : \A j \in 1..n : upstream[i] = upstream[j] => i = j
        /\ pc # "done" => Len(events) = n
        /\ pc = "done" =>
             /\ Len(events) = n + 1
             /\ events[n + 1] = IF raised = NoError THEN DoneEvent
                                ELSE ErrorEvent(raised)
        /\ \A i \in DOMAIN events :
             IsTerminalEvent(events[i]) => (i = Len(events) /\ pc = "done")

C8_Witness ==
  /\ StreamingChat
  /\ pc = "done"
  /\ Len(upstream) = MaxChunks
  /\ raised = StreamError
  /\ events = [i \in 1..(MaxChunks + 1) |->
                 IF i <= MaxChunks THEN ChunkEvent(Chunk(i))
                 ELSE ErrorEvent(StreamError)]

(***************************************************************************)
(* C9: every failure raised while handling a request, a failure to read    *)
(* the body included, is answered through createHonoErrorResponse, or      *)
(* createErrorResponse for an SSE error event; none leaves the handler.    *)
(***************************************************************************)
C9_EveryFailureTranslated ==
  (pc = "done" /\ raised # NoError) =>
     \/ resp = Translated(raised)
     \/ /\ StreamingChat
        /\ events # <<>>
        /\ events[Len(events)] = ErrorEvent(raised)

(***************************************************************************)
(* C10: once a chunk has been written to the caller, no further upstream   *)
(* call is issued and no other credential is selected for the request,     *)
(* and no chunk is written twice.                                          *)
(***************************************************************************)
C10_NoRetryAfterFirstChunk ==
  /\ [][HasChunkEvent(events) =>
          (nCalls' = nCalls /\ tried' = tried /\ call' = call)]_vars
  /\ [](\A i \in DOMAIN events : \A j \in DOMAIN events :
          (IsChunkEvent(events[i]) /\ events[i] = events[j]) => i = j)

C10_Witness ==
  /\ StreamingChat
  /\ pc = "done"
  /\ nCalls = 2
  /\ Len(upstream) = 1
  /\ Len(events) = 2
  /\ IsChunkEvent(events[1])
  /\ IsErrorEvent(events[2])

====
